---- MODULE Spec2Model ----
(***************************************************************************)
(* TransparenCity: proposal lifecycle, voting and audit bookkeeping.       *)
(*                                                                         *)
(*   SpecChain  - the TransparenCityGovernance contract (Solidity).        *)
(*                Every transaction is atomic; a failed require reverts    *)
(*                the whole transaction and only its revert reason is      *)
(*                observable (variable result).                            *)
(*   SpecTrail  - the TransparentAuditTrail contract (Solidity).           *)
(*   SpecServer - the Express/Mongoose controllers for proposals, votes    *)
(*                and official responses.  A request handler runs up to    *)
(*                its next await and may interleave there with the other   *)
(*                request in flight.                                       *)
(*                                                                         *)
(* Time (block.timestamp, Date.now) is counted in units of one             *)
(* VOTING_PERIOD.  Free-text payloads (titles, descriptions, IPFS hashes)  *)
(* never influence control flow and are left out of the records.           *)
(***************************************************************************)
EXTENDS Integers, Sequences, FiniteSets, TLC

\* ------------------------------------------------------------------ bounds
MaxProposals == 2      \* proposals created on chain
MaxAudit     == 4      \* records in the governance contract's audit trail
MaxTime      == 1      \* last value of the clock
MaxRecords   == 3      \* records in the TransparentAuditTrail log
MaxDocs      == 1      \* documents in the Proposal collection
MaxRequests  == 2      \* request handlers in flight at once
MaxServed    == 3      \* requests taken up in a behaviour
MaxComments  == 1      \* documents in the Comment collection
MaxUint      == 7      \* the largest value of the word that stands for uint256

\* --------------------------------------------------------------- constants
VOTING_PERIOD == 1     \* 7 days, the unit of the clock

Deployer     == "gov"
Addresses    == {"gov", "alice"}
ThisContract == "this"           \* address(this) of the governance contract
NoAddress    == "0x0"            \* address(0)

ProposalStatus == {"Active", "Passed", "Rejected", "Implemented"}

\* proposal ids a caller may pass: 0 and 1..MaxProposals, of which those above
\* proposalCount do not exist (yet)
ProposalIds == 0 .. MaxProposals
Details     == {"", "built"}

\* the three deployments are independent of each other: a behaviour is a
\* behaviour of one of them
Systems == {"governance", "trail", "server", "service", "comments", "responses",
            "implementation"}

VARIABLES
  system,            \* which deployment this behaviour is about
  now,               \* block.timestamp / Date.now()
  \* ---- TransparenCityGovernance
  admin,
  proposalCount,
  proposals,         \* mapping(uint256 => Proposal)
  verifiedVoters,    \* mapping(address => bool)
  auditTrail,        \* AuditRecord[]
  result,            \* outcome of the last transaction: "ok" or the revert reason
  \* ---- TransparentAuditTrail
  trailAdmin,
  governanceContract,
  auditRecords,          \* AuditRecord[]
  proposalAuditRecords,  \* mapping(uint256 => uint256[])
  userAuditRecords,      \* mapping(address => uint256[])
  returned,              \* value returned by the last recordAudit, -1 before any
  batch,                 \* arrays returned by the last getAuditBatch, NoBatch once
                         \* a later transaction has changed the contract
  recent,                \* the getRecentAuditRecords call of the service in flight
  \* ---- Express/Mongoose server
  Proposal,          \* the Proposal collection; _id = position
  Vote,              \* the Vote collection; _id = position
  OfficialResponse,  \* the OfficialResponse collection; _id = position
  req,               \* the request handlers in flight, suspended at an await
  response,          \* the response sent last
  served,            \* requests taken up so far
  Implementation,    \* the Implementation collection; _id = position
  Milestone,         \* the Milestone collection
  Comment,           \* the Comment collection; _id = position
  \* ---- BlockchainService (client of the governance contract)
  listed             \* what the last getProposals call returned

chainVars == <<admin, proposalCount, proposals, verifiedVoters, auditTrail>>
trailVars == <<trailAdmin, governanceContract, auditRecords, proposalAuditRecords,
               userAuditRecords, returned, batch, recent>>
serverVars == <<Proposal, Vote, OfficialResponse, req, response, served>>
implVars == <<Implementation, Milestone>>
commentVars == <<Comment>>
serviceVars == <<listed>>
otherVars == <<implVars, commentVars, serviceVars>>
vars == <<system, now, result, chainVars, trailVars, serverVars, otherVars>>

\* ---------------------------------------------------------------- the clock
Tick ==
  /\ now < MaxTime
  /\ now' = now + 1
  /\ UNCHANGED <<system, result, chainVars, trailVars, serverVars, otherVars>>

\* ======================================================================
\*  TransparenCityGovernance
\* ======================================================================

\* the outcome of a call: what was called, on which proposal id, and "ok" or
\* the revert reason
Outcome(op, pid, out) == [op |-> op, pid |-> pid, out |-> out]

\* the zero-initialised storage slot of mapping(uint256 => Proposal)
EmptyProposal ==
  [ id |-> 0, creationTime |-> 0, votingEndTime |-> 0, proposer |-> NoAddress,
    yesVotes |-> 0, noVotes |-> 0, status |-> "Active",
    implementationDetails |-> "",
    hasVoted |-> [a \in Addresses |-> FALSE] ]

InitChain ==
  /\ result = Outcome("constructor", 0, "ok")
  /\ admin = Deployer
  /\ proposalCount = 0
  /\ proposals = [p \in ProposalIds |-> EmptyProposal]
  /\ verifiedVoters = [a \in Addresses |-> FALSE]
  /\ auditTrail = << >>

\* anyone passes for the admin
onlyAdmin_Anyone(sender) == TRUE

\* require(msg.sender == admin)
onlyAdmin(sender) == sender = admin

onlyVerifiedVoter(sender) == verifiedVoters[sender]

ValidId(pid) == pid <= proposalCount /\ pid > 0

\* auditTrail.push(AuditRecord{...})
recordAudit(trail, user, pid, action) ==
  Append(trail, [user |-> user, proposalId |-> pid, action |-> action, timestamp |-> now])

Revert(op, pid, reason) ==
  /\ result' = Outcome(op, pid, reason)
  /\ UNCHANGED <<system, now, chainVars, trailVars, serverVars, otherVars>>

verifyVoter(sender, voter) ==
  IF ~onlyAdmin(sender) THEN Revert("verifyVoter", 0, "Only admin can perform this action")
  ELSE
    /\ Len(auditTrail) < MaxAudit
    /\ verifiedVoters' = [verifiedVoters EXCEPT ![voter] = TRUE]
    /\ auditTrail' = recordAudit(auditTrail, voter, 0, "VOTER_VERIFIED")
    /\ result' = Outcome("verifyVoter", 0, "ok")
    /\ UNCHANGED <<system, now, admin, proposalCount, proposals, trailVars, serverVars, otherVars>>

updateProposalStatus(sender, pid, newStatus, details) ==
  IF ~onlyAdmin(sender) THEN Revert("updateProposalStatus", pid, "Only admin can perform this action")
  ELSE IF ~ValidId(pid) THEN Revert("updateProposalStatus", pid, "Invalid proposal ID")
  ELSE
    /\ Len(auditTrail) < MaxAudit
    /\ proposals' = [proposals EXCEPT
         ![pid].status = newStatus,
         ![pid].implementationDetails =
            IF newStatus = "Implemented" THEN details ELSE @]
    /\ auditTrail' = recordAudit(auditTrail, sender, pid, "STATUS_UPDATED")
    /\ result' = Outcome("updateProposalStatus", pid, "ok")
    /\ UNCHANGED <<system, now, admin, proposalCount, verifiedVoters, trailVars, serverVars, otherVars>>

createProposal(sender) ==
  IF ~onlyVerifiedVoter(sender) THEN Revert("createProposal", 0, "Only verified voters can perform this action")
  ELSE
    /\ proposalCount < MaxProposals
    /\ Len(auditTrail) < MaxAudit
    /\ proposalCount' = proposalCount + 1
    /\ proposals' = [proposals EXCEPT
         ![proposalCount + 1].id = proposalCount + 1,
         ![proposalCount + 1].creationTime = now,
         ![proposalCount + 1].votingEndTime = now + VOTING_PERIOD,
         ![proposalCount + 1].proposer = sender,
         ![proposalCount + 1].status = "Active"]
    /\ auditTrail' = recordAudit(auditTrail, sender, proposalCount + 1, "PROPOSAL_CREATED")
    /\ result' = Outcome("createProposal", proposalCount + 1, "ok")
    /\ UNCHANGED <<system, now, admin, verifiedVoters, trailVars, serverVars, otherVars>>

\* closing without looking at the deadline
CloseDue_IgnoringDeadline(prop) == prop.status = "Active"

\* the body of checkProposalStatus as a function of the storage it touches
CloseDue(prop) == prop.status = "Active" /\ now >= prop.votingEndTime

\* a tie passes
CheckedProposals_TiePasses(props, pid) ==
  IF CloseDue(props[pid])
  THEN [props EXCEPT ![pid].status =
          IF props[pid].yesVotes >= props[pid].noVotes THEN "Passed" ELSE "Rejected"]
  ELSE props

CheckedProposals(props, pid) ==
  IF CloseDue(props[pid])
  THEN [props EXCEPT ![pid].status =
          IF props[pid].yesVotes > props[pid].noVotes THEN "Passed" ELSE "Rejected"]
  ELSE props

CheckedTrail(props, trail, pid) ==
  IF CloseDue(props[pid])
  THEN recordAudit(trail, ThisContract, pid, "STATUS_UPDATED_AUTO")
  ELSE trail

checkProposalStatus(pid) ==
  /\ Len(auditTrail) < MaxAudit
  /\ proposals' = CheckedProposals(proposals, pid)
  /\ auditTrail' = CheckedTrail(proposals, auditTrail, pid)
  /\ result' = Outcome("checkProposalStatus", pid, "ok")
  /\ UNCHANGED <<system, now, admin, proposalCount, verifiedVoters, trailVars, serverVars, otherVars>>

\* storage after the vote is counted, before the trailing checkProposalStatus
VotedProposals(sender, pid, support) ==
  [proposals EXCEPT
     ![pid].hasVoted[sender] = TRUE,
     ![pid].yesVotes = IF support THEN @ + 1 ELSE @,
     ![pid].noVotes  = IF support THEN @ ELSE @ + 1]

\* castVote without the hasVoted require
castVote_NoVotedCheck(sender, pid, support) ==
  IF ~onlyVerifiedVoter(sender)
  THEN Revert("castVote", pid, "Only verified voters can perform this action")
  ELSE IF ~ValidId(pid) THEN Revert("castVote", pid, "Invalid proposal ID")
  ELSE IF ~(now < proposals[pid].votingEndTime)
  THEN Revert("castVote", pid, "Voting period has ended")
  ELSE IF proposals[pid].status # "Active"
  THEN Revert("castVote", pid, "Proposal is not active")
  ELSE
    /\ Len(auditTrail) < MaxAudit
    /\ LET voted  == VotedProposals(sender, pid, support)
           logged == recordAudit(auditTrail, sender, pid,
                                 IF support THEN "VOTE_YES" ELSE "VOTE_NO")
       IN /\ proposals' = CheckedProposals(voted, pid)
          /\ auditTrail' = CheckedTrail(voted, logged, pid)
    /\ result' = Outcome("castVote", pid, "ok")
    /\ UNCHANGED <<system, now, admin, proposalCount, verifiedVoters, trailVars, serverVars, otherVars>>

castVote(sender, pid, support) ==
  IF ~onlyVerifiedVoter(sender) THEN Revert("castVote", pid, "Only verified voters can perform this action")
  ELSE IF ~ValidId(pid) THEN Revert("castVote", pid, "Invalid proposal ID")
  ELSE IF ~(now < proposals[pid].votingEndTime) THEN Revert("castVote", pid, "Voting period has ended")
  ELSE IF proposals[pid].status # "Active" THEN Revert("castVote", pid, "Proposal is not active")
  ELSE IF proposals[pid].hasVoted[sender] THEN Revert("castVote", pid, "Already voted on this proposal")
  ELSE
    /\ Len(auditTrail) < MaxAudit
    /\ LET voted  == VotedProposals(sender, pid, support)
           logged == recordAudit(auditTrail, sender, pid,
                                 IF support THEN "VOTE_YES" ELSE "VOTE_NO")
       IN /\ proposals' = CheckedProposals(voted, pid)
          /\ auditTrail' = CheckedTrail(voted, logged, pid)
    /\ result' = Outcome("castVote", pid, "ok")
    /\ UNCHANGED <<system, now, admin, proposalCount, verifiedVoters, trailVars, serverVars, otherVars>>

NextChain ==
  \/ Tick
  \/ \E s \in Addresses, v \in Addresses :
        system = "governance" /\ verifyVoter(s, v)
  \/ \E s \in Addresses, p \in ProposalIds, st \in ProposalStatus :
        \E d \in (IF st = "Implemented" THEN Details ELSE {""}) :
           system = "governance" /\ updateProposalStatus(s, p, st, d)
  \/ \E s \in Addresses : system = "governance" /\ createProposal(s)
  \/ \E s \in Addresses, p \in ProposalIds, b \in BOOLEAN :
        system = "governance" /\ castVote(s, p, b)
  \/ \E p \in ProposalIds : system = "governance" /\ checkProposalStatus(p)

\* ======================================================================
\*  TransparentAuditTrail
\* ======================================================================
ActionTypes    == {"VOTE"}
DataHashes     == {"Qm1"}
MetadataHashes == {"0x1"}
\* _proposalId of a record: 0 (not about a proposal) or a proposal
TrailProposalIds == {0, 1}

\* uint256 in the model: a word whose largest value is MaxUint
StartInputs == 0 .. MaxRecords
CountInputs == {0, 1, MaxUint}
\* the count argument of getRecentAuditRecords (20 by default)
RecentCounts == {2}

NoBatch == [ids |-> << >>, timestamps |-> << >>, actors |-> << >>,
            actionTypes |-> << >>, proposalIds |-> << >>]
NoCall == [pc |-> "idle", startIndex |-> 0, count |-> 0]

InitTrail ==
  /\ trailAdmin = Deployer
  /\ governanceContract = NoAddress
  /\ auditRecords = << >>
  /\ proposalAuditRecords = [p \in TrailProposalIds |-> << >>]
  /\ userAuditRecords = [a \in Addresses |-> << >>]
  /\ returned = -1
  /\ batch = NoBatch
  /\ recent = NoCall

\* a reverted transaction of the audit trail contract
TrailRevert(op, pid, reason) ==
  /\ result' = Outcome(op, pid, reason)
  /\ batch' = NoBatch
  /\ UNCHANGED <<system, now, chainVars, serverVars, otherVars, trailAdmin, governanceContract,
                 auditRecords, proposalAuditRecords, userAuditRecords, returned, recent>>

onlyTrailAdmin(sender) == sender = trailAdmin

onlyGovernance(sender) == sender = governanceContract

setGovernanceContract(sender, addr) ==
  IF ~onlyTrailAdmin(sender) THEN TrailRevert("setGovernanceContract", 0, "Only admin can perform this action")
  ELSE IF addr = NoAddress THEN TrailRevert("setGovernanceContract", 0, "Invalid address")
  ELSE
    /\ governanceContract' = addr
    /\ result' = Outcome("setGovernanceContract", 0, "ok")
    /\ UNCHANGED <<system, now, chainVars, serverVars, otherVars, trailAdmin, auditRecords,
                   proposalAuditRecords, userAuditRecords, returned, recent>>
    /\ batch' = NoBatch

\* ids counted from 1
NextRecordId_FromOne(records) == Len(records) + 1

\* uint256 recordId = auditRecords.length
NextRecordId(records) == Len(records)

\* the per-proposal index is never written
PushProposalIndex_Never(index, pid, recordId) == index

\* if (_proposalId > 0) proposalAuditRecords[_proposalId].push(recordId)
PushProposalIndex(index, pid, recordId) ==
  IF pid > 0 THEN [index EXCEPT ![pid] = Append(@, recordId)] ELSE index

TrailRecordAudit(sender, actor, actionType, pid, ipfsDataHash, metadataHash) ==
  IF ~onlyGovernance(sender) THEN TrailRevert("recordAudit", pid, "Only governance contract can call")
  ELSE
    /\ Len(auditRecords) < MaxRecords
    /\ LET recordId == NextRecordId(auditRecords)
       IN /\ auditRecords' = Append(auditRecords,
               [ id |-> recordId, timestamp |-> now, actor |-> actor,
                 actionType |-> actionType, proposalId |-> pid,
                 ipfsDataHash |-> ipfsDataHash, metadataHash |-> metadataHash ])
          /\ proposalAuditRecords' = PushProposalIndex(proposalAuditRecords, pid, recordId)
          /\ userAuditRecords' = [userAuditRecords EXCEPT ![actor] = Append(@, recordId)]
          /\ returned' = recordId
    /\ batch' = NoBatch
    /\ result' = Outcome("recordAudit", pid, "ok")
    /\ UNCHANGED <<system, now, chainVars, serverVars, otherVars, trailAdmin, governanceContract, recent>>

\* the first require of getAuditBatch
StartInBounds(records, start) == start < Len(records)

\* _startIndex + _count in checked arithmetic: Panic(0x11) above the word
AddOverflows(start, count) == start + count > MaxUint

\* if (_startIndex + _count > auditRecords.length) _count = auditRecords.length - _startIndex
ClampedCount(records, start, count) ==
  IF start + count > Len(records) THEN Len(records) - start ELSE count

\* the loop filling the five arrays from auditRecords[_startIndex + i]
BatchArrays(records, start, n) ==
  [ ids         |-> [i \in 1 .. n |-> records[start + i].id],
    timestamps  |-> [i \in 1 .. n |-> records[start + i].timestamp],
    actors      |-> [i \in 1 .. n |-> records[start + i].actor],
    actionTypes |-> [i \in 1 .. n |-> records[start + i].actionType],
    proposalIds |-> [i \in 1 .. n |-> records[start + i].proposalId] ]

\* the outcome of the view call: "ok" or the revert reason
BatchOutcome(records, start, count) ==
  IF ~StartInBounds(records, start) THEN "Start index out of bounds"
  ELSE IF AddOverflows(start, count) THEN "Panic(0x11)"
  ELSE "ok"

ViewFrame ==
  UNCHANGED <<system, now, chainVars, serverVars, otherVars, trailAdmin, governanceContract,
              auditRecords, proposalAuditRecords, userAuditRecords, returned>>

getAuditBatch(start, count) ==
  /\ result' = Outcome("getAuditBatch", 0, BatchOutcome(auditRecords, start, count))
  /\ batch' = IF BatchOutcome(auditRecords, start, count) = "ok"
              THEN BatchArrays(auditRecords, start, ClampedCount(auditRecords, start, count))
              ELSE NoBatch
  /\ UNCHANGED recent
  /\ ViewFrame

Max(a, b) == IF a > b THEN a ELSE b

\* totalCount = await getAuditCount(); startIndex = Math.max(0, totalCount - count)
getRecentAuditRecords_getAuditCount(count) ==
  /\ recent.pc = "idle"
  /\ recent' = [pc |-> "getAuditBatch",
                startIndex |-> Max(0, Len(auditRecords) - count), count |-> count]
  /\ UNCHANGED <<result, batch>>
  /\ ViewFrame

\* batch = await getAuditBatch(startIndex, count); the error of a reverted call
\* is logged and thrown again
getRecentAuditRecords_getAuditBatch ==
  /\ recent.pc = "getAuditBatch"
  /\ result' = Outcome("getRecentAuditRecords", 0,
                       BatchOutcome(auditRecords, recent.startIndex, recent.count))
  /\ batch' = IF BatchOutcome(auditRecords, recent.startIndex, recent.count) = "ok"
              THEN BatchArrays(auditRecords, recent.startIndex,
                               ClampedCount(auditRecords, recent.startIndex, recent.count))
              ELSE NoBatch
  /\ recent' = NoCall
  /\ ViewFrame

NextTrail ==
  \/ Tick
  \/ \E st \in StartInputs, c \in CountInputs : system = "trail" /\ getAuditBatch(st, c)
  \/ \E c \in RecentCounts : system = "trail" /\ getRecentAuditRecords_getAuditCount(c)
  \/ system = "trail" /\ getRecentAuditRecords_getAuditBatch
  \/ \E s \in Addresses, a \in Addresses \cup {NoAddress} :
        system = "trail" /\ setGovernanceContract(s, a)
  \/ \E s \in Addresses, a \in Addresses, t \in ActionTypes, p \in TrailProposalIds,
        h \in DataHashes, m \in MetadataHashes :
        system = "trail" /\ TrailRecordAudit(s, a, t, p, h, m)

\* ======================================================================
\*  Express/Mongoose server: proposals, votes, official responses
\* ======================================================================
Users      == {"u1", "u2"}
Slots      == 1 .. MaxRequests
Missing    == "undefined"          \* a field absent from req.body / a document
VoteEnum   == {"yes", "no", "abstain"}
\* req.body.vote as a client may send it
VoteInputs == VoteEnum \cup {"maybe", Missing}
ProposalStatusEnum ==
  {"draft", "submitted", "under_review", "voting", "approved", "rejected", "implemented"}
\* req.body.status of createProposal as a client may send it
CreateStatusInputs == {Missing, "voting", "bogus"}
\* req.body.votingDeadline of createProposal: absent, or a date
DeadlineInputs == {{}, {1}}
ResponseStatusEnum ==
  {"under_review", "approved", "rejected", "partially_approved", "deferred"}
\* req.body.status of createOfficialResponse as a client may send it
ResponseStatusInputs == {"approved", "partially_approved", "deferred", "bogus"}

ZeroCount == [yes |-> 0, no |-> 0, abstain |-> 0]

Idle ==
  [ op |-> "idle", pc |-> "idle", user |-> Missing, pid |-> 0, vid |-> 0,
    choice |-> Missing, old |-> Missing, status |-> Missing,
    voteCount |-> ZeroCount, dirty |-> {},
    rid |-> 0, isVerified |-> FALSE, proof |-> Missing ]

NothingListed ==
  [pc |-> "idle", limit |-> 0, offset |-> 0, start |-> 0, end |-> 0,
   proposals |-> << >>, totalCount |-> 0]

InitServer ==
  /\ Proposal = << >>
  /\ Vote = << >>
  /\ OfficialResponse = << >>
  /\ req = [s \in Slots |-> Idle]
  /\ response = [op |-> "none", code |-> "none"]
  /\ served = 0

ServerFrame == UNCHANGED <<system, now, result, chainVars, trailVars, otherVars>>

\* res.status(...).json(...) / next(err): the handler ends
Respond(s, op, code) ==
  /\ response' = [op |-> op, code |-> code]
  /\ req' = [req EXCEPT ![s] = Idle]

Await(s, r) ==
  /\ req' = [req EXCEPT ![s] = r]
  /\ UNCHANGED response

\* a request is taken up by the first free handler slot (the slots are
\* interchangeable)
FirstIdle(s) ==
  /\ served < MaxServed
  /\ served' = served + 1
  /\ req[s].op = "idle"
  /\ \A t \in Slots : t < s => req[t].op # "idle"

\* req.user.isGovernmentOfficial, set by the auth middleware from the user record
isGovernmentOfficial(user) == user = "u1"

\* Proposal.findById
ProposalExists(pid) == pid \in 1 .. Len(Proposal)

\* ---------------------------------------------------------- createProposal
\* Proposal.create(req.body): schema defaults, then validation of the enum
Proposal_create(status, deadline) ==
  /\ Len(Proposal) < MaxDocs
  /\ IF status \notin ProposalStatusEnum \cup {Missing}
     THEN /\ response' = [op |-> "createProposal", code |-> "ValidationError"]
          /\ UNCHANGED Proposal
     ELSE /\ Proposal' = Append(Proposal,
               [ status |-> IF status = Missing THEN "submitted" ELSE status,
                 voteCount |-> ZeroCount,
                 votingDeadline |-> deadline ])
          /\ response' = [op |-> "createProposal", code |-> "201"]
  /\ UNCHANGED <<Vote, OfficialResponse, req, served>>
  /\ ServerFrame

\* ----------------------------------------------------------------- addVote
\* no unique index
VoteIndexViolated_NoIndex(docs, pid, user) == FALSE

\* VoteSchema.index({ proposal: 1, user: 1 }, { unique: true })
VoteIndexViolated(docs, pid, user) ==
  \E i \in 1 .. Len(docs) : docs[i].proposal = pid /\ docs[i].user = user

\* Vote.findOne({ user, proposal })
VoteExists(pid, user) ==
  \E i \in 1 .. Len(Vote) : Vote[i].proposal = pid /\ Vote[i].user = user

\* may a proposal in this status be voted on
OpenForVoting(doc) == doc.status = "voting"

\* the handler's copy of proposal.voteCount, kept for the paths it goes on to
\* modify (the only ones proposal.save() writes back)
CopyOf(count, paths) == [k \in VoteEnum |-> IF k \in paths THEN count[k] ELSE 0]

addVote_findProposal(s, user, pid, choice) ==
  /\ FirstIdle(s)
  /\ IF ~ProposalExists(pid) THEN Respond(s, "addVote", "404 No proposal")
     ELSE IF ~OpenForVoting(Proposal[pid])
          THEN Respond(s, "addVote", "400 Proposal is not currently open for voting")
     ELSE Await(s, [Idle EXCEPT !.op = "addVote", !.pc = "findVote", !.user = user,
                                !.pid = pid, !.choice = choice,
                                !.voteCount = CopyOf(Proposal[pid].voteCount,
                                                     {choice} \cap VoteEnum)])
  /\ UNCHANGED <<Proposal, Vote, OfficialResponse>>
  /\ ServerFrame

addVote_findVote(s) ==
  /\ UNCHANGED served
  /\ req[s].op = "addVote" /\ req[s].pc = "findVote"
  /\ IF VoteExists(req[s].pid, req[s].user)
     THEN Respond(s, "addVote", "400 You have already voted on this proposal")
     ELSE Await(s, [req[s] EXCEPT !.pc = "createVote"])
  /\ UNCHANGED <<Proposal, Vote, OfficialResponse>>
  /\ ServerFrame

\* Vote.create(req.body), then proposal.voteCount[req.body.vote] += 1 and the
\* call of proposal.save()
addVote_createVote(s) ==
  /\ UNCHANGED served
  /\ req[s].op = "addVote" /\ req[s].pc = "createVote"
  /\ IF req[s].choice \notin VoteEnum
     THEN Respond(s, "addVote", "ValidationError") /\ UNCHANGED Vote
     ELSE IF VoteIndexViolated(Vote, req[s].pid, req[s].user)
     THEN Respond(s, "addVote", "E11000 duplicate key") /\ UNCHANGED Vote
     ELSE /\ Vote' = Append(Vote, [proposal |-> req[s].pid, user |-> req[s].user,
                                   vote |-> req[s].choice])
          /\ Await(s, [req[s] EXCEPT
                 !.pc = "saveProposal", !.vid = Len(Vote) + 1,
                 !.voteCount[req[s].choice] = @ + 1,
                 !.dirty = {req[s].choice}])
  /\ UNCHANGED <<Proposal, OfficialResponse>>
  /\ ServerFrame

\* proposal.save(): the modified paths of the handler's copy are $set
SavedCount(stored, copy, dirty) ==
  [k \in VoteEnum |-> IF k \in dirty THEN copy[k] ELSE stored[k]]

saveProposal(s) ==
  /\ UNCHANGED served
  /\ req[s].op \in {"addVote", "updateVote"} /\ req[s].pc = "saveProposal"
  /\ Proposal' = [Proposal EXCEPT ![req[s].pid].voteCount =
                     SavedCount(@, req[s].voteCount, req[s].dirty)]
  /\ IF req[s].op = "addVote"
     THEN Respond(s, "addVote", "201")
     ELSE Await(s, [req[s] EXCEPT !.pc = "updateVoteDoc"])
  /\ UNCHANGED <<Vote, OfficialResponse>>
  /\ ServerFrame

\* -------------------------------------------------------------- updateVote
updateVote_findVote(s, user, vid, choice) ==
  /\ FirstIdle(s)
  /\ IF vid \notin 1 .. Len(Vote) THEN Respond(s, "updateVote", "404 No vote")
     ELSE IF Vote[vid].user # user THEN Respond(s, "updateVote", "401 Not authorized to update this vote")
     ELSE Await(s, [Idle EXCEPT !.op = "updateVote", !.pc = "findProposal",
                                !.user = user, !.vid = vid, !.pid = Vote[vid].proposal,
                                !.old = Vote[vid].vote, !.choice = choice])
  /\ UNCHANGED <<Proposal, Vote, OfficialResponse>>
  /\ ServerFrame

\* proposal.voteCount[vote.vote] -= 1; proposal.voteCount[req.body.vote] += 1
\* (a key outside the schema is not a path of the document and is not saved)
MovedCount(count, old, new) ==
  LET dec == [count EXCEPT ![old] = @ - 1]
  IN IF new \in VoteEnum THEN [dec EXCEPT ![new] = @ + 1] ELSE dec

updateVote_findProposal(s) ==
  /\ UNCHANGED served
  /\ req[s].op = "updateVote" /\ req[s].pc = "findProposal"
  /\ IF ~OpenForVoting(Proposal[req[s].pid])
     THEN Respond(s, "updateVote", "400 Voting period has ended for this proposal")
     ELSE LET moved == MovedCount(Proposal[req[s].pid].voteCount, req[s].old, req[s].choice)
              paths == {req[s].old} \cup ({req[s].choice} \cap VoteEnum)
          IN Await(s, [req[s] EXCEPT
                 !.pc = "saveProposal", !.voteCount = CopyOf(moved, paths),
                 !.dirty = paths])
  /\ UNCHANGED <<Proposal, Vote, OfficialResponse>>
  /\ ServerFrame

\* Vote.findByIdAndUpdate(req.params.id, req.body, { new: true, runValidators: true })
updateVote_updateVoteDoc(s) ==
  /\ UNCHANGED served
  /\ req[s].op = "updateVote" /\ req[s].pc = "updateVoteDoc"
  /\ IF req[s].choice \notin VoteEnum \cup {Missing}
     THEN Respond(s, "updateVote", "ValidationError") /\ UNCHANGED Vote
     ELSE /\ Vote' = [Vote EXCEPT
                ![req[s].vid].vote = IF req[s].choice = Missing THEN @ ELSE req[s].choice]
          /\ Respond(s, "updateVote", "200")
  /\ UNCHANGED <<Proposal, OfficialResponse>>
  /\ ServerFrame

\* -------------------------------------------------- createOfficialResponse
\* the collection without the unique index
ResponseIndexViolated_NoIndex(docs, pid) == FALSE

\* OfficialResponseSchema.index({ proposal: 1 }, { unique: true })
ResponseIndexViolated(docs, pid) ==
  \E i \in 1 .. Len(docs) : docs[i].proposal = pid

\* the status written to the proposal for a response status
ProposalStatusFor(status) ==
  IF status = "approved" THEN "approved"
  ELSE IF status = "rejected" THEN "rejected"
  ELSE IF status = "partially_approved" THEN "partially_approved"
  ELSE "under_review"

createOfficialResponse_findProposal(s, user, pid, status, isVerified) ==
  /\ FirstIdle(s)
  /\ IF ~ProposalExists(pid) THEN Respond(s, "createOfficialResponse", "404 No proposal")
     ELSE IF ~isGovernmentOfficial(user)
          THEN Respond(s, "createOfficialResponse", "403 Not authorized to provide official responses")
     ELSE Await(s, [Idle EXCEPT !.op = "createOfficialResponse", !.pc = "findResponse",
                                !.user = user, !.pid = pid, !.status = status,
                                !.isVerified = isVerified])
  /\ UNCHANGED <<Proposal, Vote, OfficialResponse>>
  /\ ServerFrame

createOfficialResponse_findResponse(s) ==
  /\ UNCHANGED served
  /\ req[s].op = "createOfficialResponse" /\ req[s].pc = "findResponse"
  /\ IF \E i \in 1 .. Len(OfficialResponse) : OfficialResponse[i].proposal = req[s].pid
     THEN Respond(s, "createOfficialResponse", "400 An official response already exists for this proposal")
     ELSE Await(s, [req[s] EXCEPT
            !.pc = IF req[s].isVerified THEN "createProof" ELSE "createResponse"])
  /\ UNCHANGED <<Proposal, Vote, OfficialResponse>>
  /\ ServerFrame

\* a handler that would go on without a proof when createVerificationProof fails
createVerificationProof_IgnoreFailure(s, ok) ==
  /\ UNCHANGED served
  /\ req[s].op \in {"createOfficialResponse", "updateOfficialResponse"}
  /\ req[s].pc = "createProof"
  /\ Await(s, [req[s] EXCEPT
        !.proof = IF ok THEN "0xtx" ELSE Missing,
        !.pc = IF req[s].op = "createOfficialResponse" THEN "createResponse"
               ELSE "findByIdAndUpdate"])
  /\ UNCHANGED <<Proposal, Vote, OfficialResponse>>
  /\ ServerFrame

\* if (req.body.isVerified): proof = await blockchainService.createVerificationProof(...);
\* a failure is answered with 500 'Blockchain verification failed'
createVerificationProof(s, ok) ==
  /\ UNCHANGED served
  /\ req[s].op \in {"createOfficialResponse", "updateOfficialResponse"}
  /\ req[s].pc = "createProof"
  /\ IF ok
     THEN Await(s, [req[s] EXCEPT
            !.proof = "0xtx",
            !.pc = IF req[s].op = "createOfficialResponse" THEN "createResponse"
                   ELSE "findByIdAndUpdate"])
     ELSE Respond(s, req[s].op, "500 Blockchain verification failed")
  /\ UNCHANGED <<Proposal, Vote, OfficialResponse>>
  /\ ServerFrame

createOfficialResponse_createResponse(s) ==
  /\ UNCHANGED served
  /\ req[s].op = "createOfficialResponse" /\ req[s].pc = "createResponse"
  /\ IF req[s].status \notin ResponseStatusEnum
     THEN Respond(s, "createOfficialResponse", "ValidationError") /\ UNCHANGED OfficialResponse
     ELSE IF ResponseIndexViolated(OfficialResponse, req[s].pid)
     THEN Respond(s, "createOfficialResponse", "E11000 duplicate key") /\ UNCHANGED OfficialResponse
     ELSE /\ OfficialResponse' = Append(OfficialResponse,
               [proposal |-> req[s].pid, respondent |-> req[s].user,
                status |-> req[s].status, isVerified |-> req[s].isVerified,
                verificationProof |-> req[s].proof])
          /\ Await(s, [req[s] EXCEPT !.pc = "updateProposal"])
  /\ UNCHANGED <<Proposal, Vote>>
  /\ ServerFrame

\* Proposal.findByIdAndUpdate(proposalId, { status: ... })
createOfficialResponse_updateProposal(s) ==
  /\ UNCHANGED served
  /\ req[s].op \in {"createOfficialResponse", "updateOfficialResponse"}
  /\ req[s].pc = "updateProposal"
  /\ Proposal' = [Proposal EXCEPT ![req[s].pid].status = ProposalStatusFor(req[s].status)]
  /\ Respond(s, req[s].op, IF req[s].op = "createOfficialResponse" THEN "201" ELSE "200")
  /\ UNCHANGED <<Vote, OfficialResponse>>
  /\ ServerFrame

\* -------------------------------------------------- updateOfficialResponse
\* req.user.isAdmin: none of the users of the model is an administrator
isAdmin(user) == FALSE

\* req.body.status of updateOfficialResponse as a client may send it
UpdateStatusInputs == {Missing, "approved", "rejected", "bogus"}

updateOfficialResponse_findById(s, user, rid, status, isVerified) ==
  /\ FirstIdle(s)
  /\ IF rid \notin 1 .. Len(OfficialResponse)
     THEN Respond(s, "updateOfficialResponse", "404 No response")
     ELSE IF OfficialResponse[rid].respondent # user /\ ~isAdmin(user)
     THEN Respond(s, "updateOfficialResponse", "403 Not authorized to update this response")
     ELSE Await(s, [Idle EXCEPT
            !.op = "updateOfficialResponse", !.user = user, !.rid = rid,
            !.pid = OfficialResponse[rid].proposal, !.old = OfficialResponse[rid].status,
            !.status = status, !.isVerified = isVerified,
            !.pc = IF status # Missing /\ status # OfficialResponse[rid].status /\ isVerified
                   THEN "createProof" ELSE "findByIdAndUpdate"])
  /\ UNCHANGED <<Proposal, Vote, OfficialResponse>>
  /\ ServerFrame

\* the document after findByIdAndUpdate(id, req.body, { new: true, runValidators: true })
UpdatedResponse(doc, r) ==
  [doc EXCEPT
     !.status = IF r.status = Missing THEN @ ELSE r.status,
     !.isVerified = IF r.isVerified THEN TRUE ELSE @,
     !.verificationProof = IF r.proof = Missing THEN @ ELSE r.proof]

\* if (req.body.status && req.body.status !== response.status), response being
\* the document that findByIdAndUpdate returned
StatusChanged(r, updated) == r.status # Missing /\ r.status # updated.status

updateOfficialResponse_findByIdAndUpdate(s) ==
  /\ UNCHANGED served
  /\ req[s].op = "updateOfficialResponse" /\ req[s].pc = "findByIdAndUpdate"
  /\ IF req[s].status \notin ResponseStatusEnum \cup {Missing}
     THEN Respond(s, "updateOfficialResponse", "ValidationError") /\ UNCHANGED OfficialResponse
     ELSE /\ OfficialResponse' = [OfficialResponse EXCEPT
                ![req[s].rid] = UpdatedResponse(@, req[s])]
          /\ IF StatusChanged(req[s], UpdatedResponse(OfficialResponse[req[s].rid], req[s]))
             THEN Await(s, [req[s] EXCEPT !.pc = "updateProposal"])
             ELSE Respond(s, "updateOfficialResponse", "200")
  /\ UNCHANGED <<Proposal, Vote>>
  /\ ServerFrame

NextServer ==
  \/ Tick
  \/ \E st \in CreateStatusInputs, d \in DeadlineInputs :
        system = "server" /\ Proposal_create(st, d)
  \/ \E s \in Slots, u \in Users, p \in 1 .. (MaxDocs + 1), c \in VoteInputs :
        system = "server" /\ addVote_findProposal(s, u, p, c)
  \/ \E s \in Slots : system = "server" /\ addVote_findVote(s)
  \/ \E s \in Slots : system = "server" /\ addVote_createVote(s)
  \/ \E s \in Slots : system = "server" /\ saveProposal(s)
  \/ \E s \in Slots, u \in Users, v \in 1 .. (Len(Vote) + 1), c \in VoteInputs :
        system = "server" /\ updateVote_findVote(s, u, v, c)
  \/ \E s \in Slots : system = "server" /\ updateVote_findProposal(s)
  \/ \E s \in Slots : system = "server" /\ updateVote_updateVoteDoc(s)
  \/ \E s \in Slots, u \in Users, p \in 1 .. (MaxDocs + 1),
        st \in ResponseStatusInputs :
        system = "server" /\ createOfficialResponse_findProposal(s, u, p, st, FALSE)
  \/ \E s \in Slots : system = "server" /\ createOfficialResponse_findResponse(s)
  \/ \E s \in Slots : system = "server" /\ createOfficialResponse_createResponse(s)
  \/ \E s \in Slots : system = "server" /\ createOfficialResponse_updateProposal(s)

\* ======================================================================
\*  Implementation plans, comments, BlockchainService
\* ======================================================================
InitOther ==
  /\ Implementation = << >>
  /\ Milestone = << >>
  /\ Comment = << >>
  /\ listed = NothingListed

\* ------------------------------------------- BlockchainService.getProposals
LimitInputs  == 1 .. MaxProposals
OffsetInputs == 0 .. MaxProposals

ServiceFrame ==
  UNCHANGED <<system, now, result, chainVars, trailVars, serverVars, implVars, commentVars>>

\* totalProposals = parseInt(await proposalCount()); start and end of the range
getProposals_proposalCount(limit, offset) ==
  /\ listed.pc = "idle"
  /\ LET start == Max(1, proposalCount - offset)
     IN listed' = [pc |-> "fetch", limit |-> limit, offset |-> offset,
                   start |-> start, end |-> Max(1, start - limit),
                   proposals |-> << >>, totalCount |-> proposalCount]
  /\ ServiceFrame

\* the ids start, start - 1, ..., end
IdsDownTo(start, end) == [i \in 1 .. (start - end + 1) |-> start - i + 1]

\* for (i = start; i >= end; i--): getProposalDetails(i) is pushed, and an id
\* for which getProposalBasicInfo reverts is skipped with a warning
getProposals_fetch ==
  /\ listed.pc = "fetch"
  /\ listed' = [listed EXCEPT
        !.pc = "idle",
        !.proposals = SelectSeq(IdsDownTo(listed.start, listed.end), ValidId)]
  /\ ServiceFrame

\* official responses with blockchain verification, and their update
NextResponses ==
  \/ \E d \in DeadlineInputs : system = "responses" /\ Proposal_create(Missing, d)
  \/ \E s \in Slots, u \in Users, p \in 1 .. (MaxDocs + 1),
        st \in ResponseStatusInputs, v \in BOOLEAN :
        system = "responses" /\ createOfficialResponse_findProposal(s, u, p, st, v)
  \/ \E s \in Slots : system = "responses" /\ createOfficialResponse_findResponse(s)
  \/ \E s \in Slots, ok \in BOOLEAN : system = "responses" /\ createVerificationProof(s, ok)
  \/ \E s \in Slots : system = "responses" /\ createOfficialResponse_createResponse(s)
  \/ \E s \in Slots : system = "responses" /\ createOfficialResponse_updateProposal(s)
  \/ \E s \in Slots, u \in Users, r \in 1 .. (MaxDocs + 1),
        st \in UpdateStatusInputs, v \in BOOLEAN :
        system = "responses" /\ updateOfficialResponse_findById(s, u, r, st, v)
  \/ \E s \in Slots : system = "responses" /\ updateOfficialResponse_findByIdAndUpdate(s)

\* ------------------------------------------------- implementation plans
ImplFrame ==
  UNCHANGED <<system, now, result, chainVars, trailVars, commentVars, serviceVars,
              Vote, OfficialResponse>>

ImplementationStatusEnum == {"planning", "in_progress", "delayed", "completed", "cancelled"}
\* req.body.status of createImplementation / updateImplementation as sent
ImplCreateStatusInputs == {Missing, "bogus"}
ImplStatusInputs   == {Missing, "in_progress", "completed", "bogus"}
\* req.body.milestones: TRUE for a milestone with the required title and
\* targetDate, FALSE for one that fails validation
MilestoneInputs == {<< >>, <<TRUE>>, <<TRUE, FALSE>>}

\* a request of the implementation controller in flight
ImplRequest(op, pc) ==
  [ op |-> op, pc |-> pc, user |-> Missing, pid |-> 0, iid |-> 0,
    status |-> Missing, old |-> Missing, milestones |-> << >>,
    addBlockchainProof |-> FALSE, blockchainProofs |-> Missing ]

\* the collection without the unique index
ImplementationIndexViolated_NoIndex(docs, pid) == FALSE

\* ImplementationSchema.index({ proposal: 1 }, { unique: true })
ImplementationIndexViolated(docs, pid) ==
  \E i \in 1 .. Len(docs) : docs[i].proposal = pid

\* Proposal.findById and the status check
createImplementation_findProposal(s, pid, status, milestones, addBlockchainProof) ==
  /\ FirstIdle(s)
  /\ IF ~ProposalExists(pid)
     THEN Respond(s, "createImplementation", "404 No proposal")
     ELSE IF Proposal[pid].status \notin {"approved", "partially_approved"}
     THEN Respond(s, "createImplementation",
                  "400 Cannot create implementation for non-approved proposal")
     ELSE Await(s, [ImplRequest("createImplementation", "findOne") EXCEPT
                      !.pid = pid, !.status = status, !.milestones = milestones,
                      !.addBlockchainProof = addBlockchainProof])
  /\ UNCHANGED <<Proposal, Implementation, Milestone>>
  /\ ImplFrame

\* Implementation.findOne({ proposal: proposalId })
createImplementation_findOne(s) ==
  /\ UNCHANGED served
  /\ req[s].op = "createImplementation" /\ req[s].pc = "findOne"
  /\ IF \E i \in 1 .. Len(Implementation) : Implementation[i].proposal = req[s].pid
     THEN Respond(s, "createImplementation",
                  "400 Implementation plan already exists for this proposal")
     ELSE Await(s, [req[s] EXCEPT !.pc = "create"])
  /\ UNCHANGED <<Proposal, Implementation, Milestone>>
  /\ ImplFrame

\* what follows the milestones in createImplementation: the proof if asked for,
\* else the answer 201
AfterMilestones(s, r) ==
  IF r.addBlockchainProof
  THEN Await(s, [r EXCEPT !.pc = "proof"])
  ELSE Respond(s, "createImplementation", "201")

\* Implementation.create({ ...req.body, proposal: proposalId })
createImplementation_create(s) ==
  /\ UNCHANGED served
  /\ req[s].op = "createImplementation" /\ req[s].pc = "create"
  /\ IF req[s].status \notin ImplementationStatusEnum \cup {Missing}
     THEN Respond(s, "createImplementation", "ValidationError") /\ UNCHANGED Implementation
     ELSE IF ImplementationIndexViolated(Implementation, req[s].pid)
     THEN Respond(s, "createImplementation", "E11000 duplicate key")
          /\ UNCHANGED Implementation
     ELSE /\ Implementation' = Append(Implementation,
               [ proposal |-> req[s].pid,
                 status |-> IF req[s].status = Missing THEN "planning" ELSE req[s].status,
                 progressUpdates |-> << >>, blockchainProofs |-> << >> ])
          /\ LET r == [req[s] EXCEPT !.iid = Len(Implementation) + 1]
             IN IF r.milestones # << >>
                THEN Await(s, [r EXCEPT !.pc = "milestones"])
                ELSE AfterMilestones(s, r)
  /\ UNCHANGED <<Proposal, Milestone>>
  /\ ImplFrame

\* the milestones of the list that pass validation, with order = index + 1
ValidMilestones(iid, milestones) ==
  LET idx == SelectSeq([i \in 1 .. Len(milestones) |-> i], LAMBDA i : milestones[i])
  IN [k \in 1 .. Len(idx) |-> [implementation |-> iid, order |-> idx[k]]]

\* await Promise.all(req.body.milestones.map(... Milestone.create ...))
createImplementation_milestones(s) ==
  /\ UNCHANGED served
  /\ req[s].op = "createImplementation" /\ req[s].pc = "milestones"
  /\ Milestone' = Milestone \o ValidMilestones(req[s].iid, req[s].milestones)
  /\ IF \E i \in 1 .. Len(req[s].milestones) : ~req[s].milestones[i]
     THEN Respond(s, "createImplementation", "ValidationError")
     ELSE AfterMilestones(s, req[s])
  /\ UNCHANGED <<Proposal, Implementation>>
  /\ ImplFrame

\* a handler that would report a failure of createImplementationProof
createImplementationProof_Rethrow(s, ok) ==
  /\ UNCHANGED served
  /\ req[s].op \in {"createImplementation", "updateImplementation"}
  /\ req[s].pc = "proof"
  /\ Respond(s, req[s].op, "500 Blockchain proof creation failed")
  /\ UNCHANGED <<Proposal, Implementation, Milestone>>
  /\ ImplFrame

\* try { proof = await blockchainService.createImplementationProof(proofData); ... }
\* catch (error) { console.error(...) }: createImplementation pushes the proof
\* to the stored plan, updateImplementation adds it to req.body.blockchainProofs,
\* which starts as the proofs of the document it read
createImplementationProof(s, ok) ==
  /\ UNCHANGED served
  /\ req[s].op \in {"createImplementation", "updateImplementation"}
  /\ req[s].pc = "proof"
  /\ IF req[s].op = "createImplementation"
     THEN /\ Implementation' =
               IF ok
               THEN [Implementation EXCEPT ![req[s].iid].blockchainProofs =
                       Append(@, "Implementation Created")]
               ELSE Implementation
          /\ Respond(s, "createImplementation", "201")
     ELSE /\ UNCHANGED Implementation
          /\ Await(s, [req[s] EXCEPT
               !.pc = "findByIdAndUpdate",
               !.blockchainProofs =
                  IF ok THEN Append(@, "Implementation " \o req[s].status) ELSE Missing])
  /\ UNCHANGED <<Proposal, Milestone>>
  /\ ImplFrame

\* Implementation.findById, the official check, and the status-change test
updateImplementation_findById(s, user, iid, status) ==
  /\ FirstIdle(s)
  /\ IF iid \notin 1 .. Len(Implementation)
     THEN Respond(s, "updateImplementation", "404 No implementation")
     ELSE IF ~isGovernmentOfficial(user)
     THEN Respond(s, "updateImplementation", "403 Not authorized to update implementation")
     ELSE LET changes == status # Missing /\ status # Implementation[iid].status
          IN Await(s, [ImplRequest("updateImplementation", "findByIdAndUpdate") EXCEPT
                !.user = user, !.iid = iid, !.pid = Implementation[iid].proposal,
                !.status = status, !.old = Implementation[iid].status,
                !.blockchainProofs =
                   IF changes /\ status \in {"completed", "cancelled"}
                   THEN Implementation[iid].blockchainProofs ELSE Missing,
                !.pc = IF changes /\ status \in {"completed", "cancelled"}
                       THEN "proof" ELSE "findByIdAndUpdate"])
  /\ UNCHANGED <<Proposal, Implementation, Milestone>>
  /\ ImplFrame

\* req.body.progressUpdates.unshift({ update: `Status changed from ... to ...` })
StatusChangeUpdate(r) == [from |-> r.old, to |-> r.status]

\* Implementation.findByIdAndUpdate(id, req.body, { new: true, runValidators: true })
updateImplementation_findByIdAndUpdate(s) ==
  /\ UNCHANGED served
  /\ req[s].op = "updateImplementation" /\ req[s].pc = "findByIdAndUpdate"
  /\ IF req[s].status \notin ImplementationStatusEnum \cup {Missing}
     THEN Respond(s, "updateImplementation", "ValidationError") /\ UNCHANGED Implementation
     ELSE /\ Implementation' = [Implementation EXCEPT ![req[s].iid] =
               [@ EXCEPT
                  !.status = IF req[s].status = Missing THEN @ ELSE req[s].status,
                  !.progressUpdates =
                     IF req[s].status # Missing /\ req[s].status # req[s].old
                     THEN <<StatusChangeUpdate(req[s])>> ELSE @,
                  !.blockchainProofs =
                     IF req[s].blockchainProofs = Missing THEN @
                     ELSE req[s].blockchainProofs]]
          /\ Respond(s, "updateImplementation", "200")
  /\ UNCHANGED <<Proposal, Milestone>>
  /\ ImplFrame

NextImpl ==
  \/ \E st \in {Missing, "approved"} :
        system = "implementation" /\ Proposal_create(st, {})
  \/ \E s \in Slots, p \in 1 .. (MaxDocs + 1), st \in ImplCreateStatusInputs,
        ms \in MilestoneInputs, a \in BOOLEAN :
        system = "implementation" /\ createImplementation_findProposal(s, p, st, ms, a)
  \/ \E s \in Slots : system = "implementation" /\ createImplementation_findOne(s)
  \/ \E s \in Slots : system = "implementation" /\ createImplementation_create(s)
  \/ \E s \in Slots : system = "implementation" /\ createImplementation_milestones(s)
  \/ \E s \in Slots, ok \in BOOLEAN :
        system = "implementation" /\ createImplementationProof(s, ok)
  \/ \E s \in Slots, u \in Users, i \in 1 .. (MaxDocs + 1), st \in ImplStatusInputs :
        system = "implementation" /\ updateImplementation_findById(s, u, i, st)
  \/ \E s \in Slots : system = "implementation" /\ updateImplementation_findByIdAndUpdate(s)

\* ------------------------------------------------------------- comments
CommentFrame ==
  UNCHANGED <<system, now, result, chainVars, trailVars, implVars, serviceVars,
              Proposal, Vote, OfficialResponse>>

\* addComment: Comment.create(req.body) with the schema defaults likes 0, likedBy []
addComment(pid) ==
  /\ Len(Comment) < MaxComments
  /\ IF ~ProposalExists(pid)
     THEN response' = [op |-> "addComment", code |-> "404 No proposal"] /\ UNCHANGED Comment
     ELSE /\ Comment' = Append(Comment, [proposal |-> pid, likes |-> 0, likedBy |-> {}])
          /\ response' = [op |-> "addComment", code |-> "201"]
  /\ UNCHANGED <<req, served>>
  /\ CommentFrame

\* comment = await Comment.findById(id); alreadyLiked = comment.likedBy.includes(req.user.id)
likeComment_findById(s, user, cid) ==
  /\ FirstIdle(s)
  /\ IF cid \notin 1 .. Len(Comment) THEN Respond(s, "likeComment", "404 No comment")
     ELSE Await(s, [op |-> "likeComment", pc |-> "findByIdAndUpdate", user |-> user,
                    cid |-> cid, alreadyLiked |-> user \in Comment[cid].likedBy])
  /\ UNCHANGED Comment
  /\ CommentFrame

\* { $pull: { likedBy: user }, $inc: { likes: -1 } } or
\* { $addToSet: { likedBy: user }, $inc: { likes: 1 } }, applied by the store at once
LikeUpdate(doc, user, alreadyLiked) ==
  IF alreadyLiked
  THEN [doc EXCEPT !.likedBy = @ \ {user}, !.likes = @ - 1]
  ELSE [doc EXCEPT !.likedBy = @ \cup {user}, !.likes = @ + 1]

likeComment_findByIdAndUpdate(s) ==
  /\ UNCHANGED served
  /\ req[s].op = "likeComment" /\ req[s].pc = "findByIdAndUpdate"
  /\ Comment' = [Comment EXCEPT ![req[s].cid] = LikeUpdate(@, req[s].user, req[s].alreadyLiked)]
  /\ Respond(s, "likeComment", "200")
  /\ CommentFrame

NextComments ==
  \/ \E d \in DeadlineInputs : system = "comments" /\ Proposal_create(Missing, d)
  \/ \E p \in 1 .. (MaxDocs + 1) : system = "comments" /\ addComment(p)
  \/ \E s \in Slots, u \in Users, c \in 1 .. (MaxComments + 1) :
        system = "comments" /\ likeComment_findById(s, u, c)
  \/ \E s \in Slots : system = "comments" /\ likeComment_findByIdAndUpdate(s)

NextService ==
  \/ \E s \in Addresses, v \in Addresses : system = "service" /\ verifyVoter(s, v)
  \/ \E s \in Addresses : system = "service" /\ createProposal(s)
  \/ \E l \in LimitInputs, o \in OffsetInputs :
        system = "service" /\ getProposals_proposalCount(l, o)
  \/ system = "service" /\ getProposals_fetch

\* ======================================================================
\*  Specifications
\* ======================================================================
Init ==
  /\ system \in Systems
  /\ now = 0
  /\ InitChain
  /\ InitTrail
  /\ InitServer
  /\ InitOther

\* one deployment: the contract or the server that "system" names runs; the
\* clock is common to all
Next == NextChain \/ NextTrail \/ NextServer \/ NextService \/ NextComments \/ NextResponses
        \/ NextImpl

Spec == Init /\ [][Next]_vars

InitGovernance == Init /\ system = "governance"

SpecChain == InitGovernance /\ [][NextChain]_vars

InitAuditTrail == Init /\ system = "trail"

SpecTrail == InitAuditTrail /\ [][NextTrail]_vars

InitExpress == Init /\ system = "server"

SpecServer == InitExpress /\ [][NextServer]_vars

InitImpl == Init /\ system = "implementation"

SpecImpl == InitImpl /\ [][NextImpl]_vars

InitResponses == Init /\ system = "responses"

SpecResponses == InitResponses /\ [][NextResponses]_vars

InitComments == Init /\ system = "comments"

SpecComments == InitComments /\ [][NextComments]_vars

InitService == Init /\ system = "service"

SpecService == InitService /\ [][NextService]_vars

\* ======================================================================
\*  Properties
\* ======================================================================
\* no request handler is in flight
Quiescent == \A s \in Slots : req[s].op = "idle"

\* the Vote documents of a proposal with a choice
VoteRecords(pid, choice) ==
  {i \in 1 .. Len(Vote) : Vote[i].proposal = pid /\ Vote[i].vote = choice}

\* the voters recorded in hasVoted of an on-chain proposal
Voters(pid) == {a \in Addresses : proposals[pid].hasVoted[a]}

\* C1: whenever no request is in flight, each tally bucket of a proposal equals
\* the number of stored vote records of that proposal with that choice
\* (off-chain), and yesVotes + noVotes equals the number of voters recorded
\* for the proposal (on-chain).
C1_TalliesEqualRecords ==
  /\ Quiescent =>
       \A p \in 1 .. Len(Proposal) : \A k \in VoteEnum :
          Proposal[p].voteCount[k] = Cardinality(VoteRecords(p, k))
  /\ \A p \in 1 .. proposalCount :
       proposals[p].yesVotes + proposals[p].noVotes = Cardinality(Voters(p))

\* ---------------------------------------------------------------------
VotingClosedReasons == {"Voting period has ended", "Proposal is not active"}

ChainStorageUnchanged == UNCHANGED <<proposalCount, proposals, verifiedVoters, auditTrail>>

\* a step of the addVote handler in slot s
AddVoteStep(s) == req[s].op = "addVote" /\ req'[s] # req[s]

\* C2 as stated: once v has voted on p, every later castVote / addVote by v on
\* p fails with the already-voted error and changes neither tallies nor vote
\* records.
C2_SecondVoteAlwaysAlreadyVoted ==
  /\ [][\A a \in Addresses, p \in ProposalIds, b \in BOOLEAN :
          (ValidId(p) /\ proposals[p].hasVoted[a] /\ castVote(a, p, b)) =>
             /\ result'.out = "Already voted on this proposal"
             /\ ChainStorageUnchanged]_vars
  /\ [][\A s \in Slots :
          (AddVoteStep(s) /\ req[s].pc \in {"findVote", "createVote"}
             /\ VoteExists(req[s].pid, req[s].user)) =>
             /\ response' = [op |-> "addVote",
                             code |-> "400 You have already voted on this proposal"]
             /\ UNCHANGED <<Proposal, Vote>>]_vars

\* C2 as amended: once a vote of v on p is stored, every later castVote /
\* addVote by v on p is rejected and changes neither tallies nor vote records.
\* The error is the already-voted one when the existence check is reached and
\* sees the vote; on chain a closed proposal (deadline passed, or not Active)
\* is reported first, off-chain a proposal that is not in voting is reported
\* first, and a request that passed the existence check before the vote was
\* stored is stopped by validation or by the unique index (duplicate key).
C2_SecondVoteRejected ==
  /\ [][\A a \in Addresses, p \in ProposalIds, b \in BOOLEAN :
          (ValidId(p) /\ proposals[p].hasVoted[a] /\ castVote(a, p, b)) =>
             /\ result'.out =
                  IF now >= proposals[p].votingEndTime THEN "Voting period has ended"
                  ELSE IF proposals[p].status # "Active" THEN "Proposal is not active"
                  ELSE "Already voted on this proposal"
             /\ ChainStorageUnchanged]_vars
  /\ [][\A s \in Slots, u \in Users, p \in 1 .. MaxDocs, c \in VoteInputs :
          (ProposalExists(p) /\ VoteExists(p, u) /\ addVote_findProposal(s, u, p, c)) =>
             /\ UNCHANGED <<Proposal, Vote>>
             /\ IF Proposal[p].status = "voting"
                THEN req'[s].pc = "findVote"
                ELSE /\ req'[s] = Idle
                     /\ response'.code = "400 Proposal is not currently open for voting"]_vars
  /\ [][\A s \in Slots :
          (req[s].op = "addVote" /\ req[s].pc \in {"findVote", "createVote"}
             /\ VoteExists(req[s].pid, req[s].user) /\ AddVoteStep(s)) =>
             /\ req'[s] = Idle
             /\ response'.op = "addVote"
             /\ response'.code =
                  IF req[s].pc = "findVote"
                  THEN "400 You have already voted on this proposal"
                  ELSE IF req[s].choice \notin VoteEnum THEN "ValidationError"
                  ELSE "E11000 duplicate key"
             /\ UNCHANGED <<Proposal, Vote>>]_vars

\* a second castVote was answered with the already-voted error
C2_Witness ==
  /\ result.op = "castVote"
  /\ result.out = "Already voted on this proposal"
  /\ Voters(result.pid) # {}

\* ---------------------------------------------------------------------
\* position of a status in submitted -> under_review -> voting/Active ->
\* Passed|Rejected -> Implemented
StatusRank(st) ==
  CASE st \in {"draft", "submitted"} -> 1
    [] st = "under_review" -> 2
    [] st \in {"voting", "Active"} -> 3
    [] st \in {"Passed", "Rejected", "approved", "rejected", "partially_approved"} -> 4
    [] st \in {"Implemented", "implemented"} -> 5

\* C3: no step moves the status of an existing proposal backwards in
\* submitted -> under_review -> voting/Active -> Passed|Rejected -> Implemented.
C3_StatusNeverRegresses ==
  [][/\ \A p \in 1 .. proposalCount :
          StatusRank(proposals'[p].status) >= StatusRank(proposals[p].status)
     /\ \A p \in 1 .. Len(Proposal) :
          StatusRank(Proposal'[p].status) >= StatusRank(Proposal[p].status)]_vars

\* ---------------------------------------------------------------------
\* C4: the k-th record appended by recordAudit (from 0) has id k and that id is
\* returned; the log only grows, by appending, and no appended record changes.
C4_AuditLogAppendOnly ==
  /\ [](\A i \in 1 .. Len(auditRecords) : auditRecords[i].id = i - 1)
  /\ [][/\ Len(auditRecords') >= Len(auditRecords)
        /\ SubSeq(auditRecords', 1, Len(auditRecords)) = auditRecords
        /\ auditRecords' # auditRecords =>
             /\ Len(auditRecords') = Len(auditRecords) + 1
             /\ returned' = Len(auditRecords)
             /\ auditRecords'[Len(auditRecords')].id = returned']_vars

\* the log holds records appended at different times, the last one returned id 2
C4_Witness ==
  /\ Len(auditRecords) = 3
  /\ returned = 2
  /\ auditRecords[1].timestamp < auditRecords[3].timestamp

\* ---------------------------------------------------------------------
\* C5: checkProposalStatus on a proposal that is not Active, or whose deadline
\* has not passed, changes neither a status, nor a tally, nor the audit trail.
C5_CheckIsNoOpUnlessDue ==
  [][\A p \in ProposalIds :
        (checkProposalStatus(p)
           /\ ~(proposals[p].status = "Active" /\ now >= proposals[p].votingEndTime)) =>
           UNCHANGED <<proposalCount, proposals, verifiedVoters, auditTrail>>]_vars

\* checkProposalStatus was called on an existing Active proposal before its deadline
C5_Witness ==
  /\ result.op = "checkProposalStatus"
  /\ ValidId(result.pid)
  /\ proposals[result.pid].status = "Active"
  /\ now < proposals[result.pid].votingEndTime
  /\ proposals[result.pid].yesVotes > 0

\* ---------------------------------------------------------------------
\* C6: checkProposalStatus on an existing Active proposal whose deadline has
\* passed sets the status to Passed if yesVotes > noVotes and to Rejected
\* otherwise, changes nothing else of the proposals, and appends exactly one
\* audit record, STATUS_UPDATED_AUTO for that proposal.
C6_CheckClosesVoting ==
  [][\A p \in ProposalIds :
        (checkProposalStatus(p) /\ ValidId(p)
           /\ proposals[p].status = "Active" /\ now >= proposals[p].votingEndTime) =>
           /\ proposals' = [proposals EXCEPT ![p].status =
                 IF proposals[p].yesVotes > proposals[p].noVotes
                 THEN "Passed" ELSE "Rejected"]
           /\ auditTrail' = Append(auditTrail,
                 [user |-> ThisContract, proposalId |-> p,
                  action |-> "STATUS_UPDATED_AUTO", timestamp |-> now])]_vars

\* a proposal with more yes than no votes was closed as Passed by checkProposalStatus
C6_Witness ==
  /\ result.op = "checkProposalStatus"
  /\ ValidId(result.pid)
  /\ proposals[result.pid].status = "Passed"
  /\ auditTrail[Len(auditTrail)].action = "STATUS_UPDATED_AUTO"

\* ---------------------------------------------------------------------
\* C7: in every step that changes a tally of a proposal, the proposal's status
\* before the step is voting (off-chain) / Active (on-chain).
C7_TalliesChangeOnlyWhileVoting ==
  [][/\ \A p \in 1 .. Len(Proposal) :
          Proposal'[p].voteCount # Proposal[p].voteCount => Proposal[p].status = "voting"
     /\ \A p \in 1 .. proposalCount :
          (proposals'[p].yesVotes # proposals[p].yesVotes
             \/ proposals'[p].noVotes # proposals[p].noVotes) =>
             proposals[p].status = "Active"]_vars

\* ---------------------------------------------------------------------
\* C8: the Vote collection never holds two documents for the same (proposal,
\* user), and on chain every recorded voter is counted exactly once.
C8_OneVotePerVoter ==
  /\ \A i, j \in 1 .. Len(Vote) :
        (Vote[i].proposal = Vote[j].proposal /\ Vote[i].user = Vote[j].user) => i = j
  /\ \A p \in 1 .. proposalCount :
        proposals[p].yesVotes + proposals[p].noVotes = Cardinality(Voters(p))

\* of two overlapping addVote requests of one user, the second was stopped by
\* the unique index
C8_Witness ==
  /\ response = [op |-> "addVote", code |-> "E11000 duplicate key"]
  /\ Len(Vote) = 1

\* ---------------------------------------------------------------------
\* the votingDeadline of a Proposal document has passed
DeadlinePassed(doc) == \E d \in doc.votingDeadline : now >= d

\* C9: castVote / addVote on a proposal that is not Active / voting, or whose
\* voting deadline has passed, fails with VotingClosed and records nothing.
C9_ClosedVotingRejectsVotes ==
  /\ [][\A a \in Addresses, p \in ProposalIds, b \in BOOLEAN :
          (castVote(a, p, b) /\ onlyVerifiedVoter(a) /\ ValidId(p)
             /\ (proposals[p].status # "Active" \/ now >= proposals[p].votingEndTime)) =>
             /\ result'.out \in VotingClosedReasons
             /\ ChainStorageUnchanged]_vars
  /\ [][\A s \in Slots, u \in Users, p \in 1 .. MaxDocs, c \in VoteInputs :
          (addVote_findProposal(s, u, p, c) /\ ProposalExists(p)
             /\ (Proposal[p].status # "voting" \/ DeadlinePassed(Proposal[p]))) =>
             /\ req'[s] = Idle
             /\ response' = [op |-> "addVote",
                             code |-> "400 Proposal is not currently open for voting"]
             /\ UNCHANGED <<Proposal, Vote>>]_vars

\* ---------------------------------------------------------------------
\* C10: a castVote by a verified voter on an existing Active proposal at or
\* after its deadline leaves the proposal closed (Passed or Rejected).
C10_CastVoteClosesExpiredVoting ==
  [][\A a \in Addresses, p \in ProposalIds, b \in BOOLEAN :
        (castVote(a, p, b) /\ onlyVerifiedVoter(a) /\ ValidId(p)
           /\ proposals[p].status = "Active" /\ now >= proposals[p].votingEndTime) =>
           proposals'[p].status \in {"Passed", "Rejected"}]_vars

\* ---------------------------------------------------------------------
\* a tally with one vote moved from bucket old to bucket new
TallyAfterMove(count, old, new) ==
  [k \in VoteEnum |-> count[k] - (IF k = old THEN 1 ELSE 0) + (IF k = new THEN 1 ELSE 0)]

\* C11: updateVote by the owner with a new choice, on a proposal in voting,
\* writes the stored tally with the old bucket one lower and the new bucket one
\* higher (third bucket and total unchanged) and stores the new choice in the
\* vote; on a proposal not in voting it fails and changes nothing.
C11_UpdateVoteMovesTally ==
  /\ [][\A s \in Slots :
          (req[s].op = "updateVote" /\ req[s].choice \in VoteEnum
             /\ saveProposal(s) /\ Proposal[req[s].pid].status = "voting") =>
             Proposal' = [Proposal EXCEPT ![req[s].pid].voteCount =
                            TallyAfterMove(@, req[s].old, req[s].choice)]]_vars
  /\ [][\A s \in Slots :
          (req[s].op = "updateVote" /\ req[s].choice \in VoteEnum
             /\ updateVote_updateVoteDoc(s)) =>
             Vote' = [Vote EXCEPT ![req[s].vid].vote = req[s].choice]]_vars
  /\ [][\A s \in Slots :
          (req[s].op = "updateVote" /\ updateVote_findProposal(s)
             /\ Proposal[req[s].pid].status # "voting") =>
             /\ req'[s] = Idle
             /\ response' = [op |-> "updateVote",
                             code |-> "400 Voting period has ended for this proposal"]
             /\ UNCHANGED <<Proposal, Vote>>]_vars

\* ---------------------------------------------------------------------
\* C12: updateProposalStatus by an account other than admin reverts with the
\* only-admin error and leaves the contract's storage unchanged; off-chain a
\* user who is not a government official is refused by createOfficialResponse
\* with 403 before anything is written, and only an official's request reaches
\* the update of the proposal status.
C12_StatusUpdateOnlyByAdmin ==
  /\ [][\A a \in Addresses \ {admin}, p \in ProposalIds, st \in ProposalStatus :
          \A d \in (IF st = "Implemented" THEN Details ELSE {""}) :
             (result' # result /\ result'.op = "updateProposalStatus" /\ result'.pid = p
                /\ updateProposalStatus(a, p, st, d)) =>
                /\ result'.out = "Only admin can perform this action"
                /\ ChainStorageUnchanged]_vars
  /\ [][\A s \in Slots, u \in Users, p \in 1 .. MaxDocs, st \in ResponseStatusInputs :
          (ProposalExists(p) /\ ~isGovernmentOfficial(u) /\ req[s].op = "idle"
             /\ createOfficialResponse_findProposal(s, u, p, st, FALSE)) =>
             /\ req'[s] = Idle
             /\ response' = [op |-> "createOfficialResponse",
                             code |-> "403 Not authorized to provide official responses"]
             /\ UNCHANGED <<Proposal, OfficialResponse>>]_vars
  /\ [][\A s \in Slots :
          (req[s].op = "createOfficialResponse" /\ Proposal' # Proposal
             /\ createOfficialResponse_updateProposal(s)) =>
             isGovernmentOfficial(req[s].user)]_vars

\* an account other than admin called updateProposalStatus on an existing
\* proposal and was refused
C12_Witness ==
  /\ result = Outcome("updateProposalStatus", result.pid,
                      "Only admin can perform this action")
  /\ ValidId(result.pid)

\* ---------------------------------------------------------------------
\* C13: once the status of a proposal is Rejected or Implemented (rejected /
\* implemented off-chain), no step changes the status of that proposal.
C13_RejectedImplementedTerminal ==
  [][/\ \A p \in ProposalIds :
          (ValidId(p) /\ proposals[p].status \in {"Rejected", "Implemented"}) =>
             proposals'[p].status = proposals[p].status
     /\ \A p \in 1 .. Len(Proposal) :
          Proposal[p].status \in {"rejected", "implemented"} =>
             Proposal'[p].status = Proposal[p].status]_vars

\* ---------------------------------------------------------------------
\* the successors of a status in Active -> {Passed | Rejected} -> Implemented
AllowedSuccessors(st) ==
  CASE st = "Active" -> {"Passed", "Rejected"}
    [] st = "Passed" -> {"Implemented"}
    [] st \in {"Rejected", "Implemented"} -> {}

\* C14: updateProposalStatus by admin on an existing proposal with a target
\* status that is not an allowed successor of the current status fails and
\* leaves the contract's storage unchanged.
C14_InvalidTransitionRejected ==
  [][\A p \in ProposalIds, st \in ProposalStatus :
        \A d \in (IF st = "Implemented" THEN Details ELSE {""}) :
           (result'.op = "updateProposalStatus" /\ result'.pid = p
              /\ ValidId(p) /\ st # proposals[p].status
              /\ st \notin AllowedSuccessors(proposals[p].status)
              /\ updateProposalStatus(admin, p, st, d)) =>
              /\ result'.out # "ok"
              /\ ChainStorageUnchanged]_vars

\* ---------------------------------------------------------------------
\* C15: an operation called with an id that identifies no existing proposal
\* (updateProposalStatus, castVote, checkProposalStatus on the contract, addVote
\* on the server) fails, sets no status and appends no audit record: it leaves
\* the stored state unchanged.
C15_UnknownIdFailsWithoutEffect ==
  /\ [][\A p \in ProposalIds :
          ~ValidId(p) =>
             /\ \A a \in Addresses, st \in ProposalStatus, d \in Details :
                  updateProposalStatus(a, p, st, d) =>
                     result'.out # "ok" /\ ChainStorageUnchanged
             /\ \A a \in Addresses, b \in BOOLEAN :
                  castVote(a, p, b) => result'.out # "ok" /\ ChainStorageUnchanged
             /\ checkProposalStatus(p) => result'.out # "ok" /\ ChainStorageUnchanged]_vars
  /\ [][\A s \in Slots, u \in Users, p \in 1 .. (MaxDocs + 1), c \in VoteInputs :
          (~ProposalExists(p) /\ req[s].op = "idle" /\ addVote_findProposal(s, u, p, c)) =>
             /\ response' = [op |-> "addVote", code |-> "404 No proposal"]
             /\ req'[s] = Idle
             /\ UNCHANGED <<Proposal, Vote, OfficialResponse>>]_vars

\* ---------------------------------------------------------------------
\* C16: a successful create adds one proposal in the initial state, whatever
\* the caller supplies: off-chain its status is submitted and its tally zero;
\* on-chain its id is the previous proposalCount + 1, its status Active, its
\* tallies zero and its votingEndTime creationTime + VOTING_PERIOD; the
\* proposals that existed before are not modified.
C16_CreateYieldsInitialState ==
  /\ [][\A st \in CreateStatusInputs, d \in DeadlineInputs :
          (Proposal_create(st, d) /\ Proposal' # Proposal) =>
             /\ Len(Proposal') = Len(Proposal) + 1
             /\ SubSeq(Proposal', 1, Len(Proposal)) = Proposal
             /\ Proposal'[Len(Proposal')].status = "submitted"
             /\ Proposal'[Len(Proposal')].voteCount = ZeroCount]_vars
  /\ [][\A a \in Addresses :
          (createProposal(a) /\ result'.out = "ok") =>
             /\ proposalCount' = proposalCount + 1
             /\ result'.pid = proposalCount'
             /\ proposals'[proposalCount'].id = proposalCount'
             /\ proposals'[proposalCount'].status = "Active"
             /\ proposals'[proposalCount'].yesVotes = 0
             /\ proposals'[proposalCount'].noVotes = 0
             /\ proposals'[proposalCount'].creationTime = now
             /\ proposals'[proposalCount'].votingEndTime = now + VOTING_PERIOD
             /\ \A q \in ProposalIds \ {proposalCount'} : proposals'[q] = proposals[q]]_vars

\* ---------------------------------------------------------------------
\* the audit records of a proposal with an action
AuditRecordsOf(pid, action) ==
  {i \in 1 .. Len(auditTrail) :
     auditTrail[i].proposalId = pid /\ auditTrail[i].action = action}

\* the step appends exactly the record (user, pid, action, now)
AppendsOne(user, pid, action) ==
  auditTrail' = Append(auditTrail,
     [user |-> user, proposalId |-> pid, action |-> action, timestamp |-> now])

\* the VOTE_YES / VOTE_NO records of every proposal are as many as its tallies
VoteRecordsMatchTallies ==
  \A p \in 1 .. proposalCount :
     /\ Cardinality(AuditRecordsOf(p, "VOTE_YES")) = proposals[p].yesVotes
     /\ Cardinality(AuditRecordsOf(p, "VOTE_NO")) = proposals[p].noVotes

\* C17: each successful verifyVoter, createProposal, castVote and
\* updateProposalStatus appends exactly one audit record naming the account
\* that performed it, the proposal and the action; a checkProposalStatus that
\* changes a status appends exactly one STATUS_UPDATED_AUTO record of the
\* proposal; a failing or effectless operation appends nothing; the VOTE_YES /
\* VOTE_NO records of every proposal are as many as its yesVotes / noVotes.
C17_EveryMutationAudited ==
  /\ [][\A a \in Addresses :
          /\ \A v \in Addresses :
               verifyVoter(a, v) =>
                  IF result'.out = "ok" THEN AppendsOne(a, 0, "VOTER_VERIFIED")
                  ELSE UNCHANGED auditTrail
          /\ createProposal(a) =>
               IF result'.out = "ok" THEN AppendsOne(a, proposalCount', "PROPOSAL_CREATED")
               ELSE UNCHANGED auditTrail
          /\ \A p \in ProposalIds, b \in BOOLEAN :
               castVote(a, p, b) =>
                  IF result'.out = "ok"
                  THEN AppendsOne(a, p, IF b THEN "VOTE_YES" ELSE "VOTE_NO")
                  ELSE UNCHANGED auditTrail
          /\ \A p \in ProposalIds, st \in ProposalStatus, d \in Details :
               updateProposalStatus(a, p, st, d) =>
                  IF result'.out = "ok" THEN AppendsOne(a, p, "STATUS_UPDATED")
                  ELSE UNCHANGED auditTrail]_vars
  /\ [][\A p \in ProposalIds :
          checkProposalStatus(p) =>
             IF proposals'[p].status # proposals[p].status
             THEN AppendsOne(ThisContract, p, "STATUS_UPDATED_AUTO")
             ELSE UNCHANGED auditTrail]_vars
  /\ []VoteRecordsMatchTallies

\* ---------------------------------------------------------------------
\* the ids of a sequence of audit records, in the order of the log
IdsOf(records) == [i \in 1 .. Len(records) |-> records[i].id]

\* the ids of all records of the log about proposal pid / by actor a
ProposalRecordIds(pid) == IdsOf(SelectSeq(auditRecords, LAMBDA r : r.proposalId = pid))

ActorRecordIds(a) == IdsOf(SelectSeq(auditRecords, LAMBDA r : r.actor = a))

Ascending(ids) == \A i, j \in 1 .. Len(ids) : i < j => ids[i] < ids[j]

\* getProposalAudits(_proposalId) / getUserAudits(_user)
getProposalAudits(pid) == proposalAuditRecords[pid]

getUserAudits(user) == userAuditRecords[user]

\* C18: after any sequence of recordAudit calls, getUserAudits(a) is the
\* ascending list of the ids of all records whose actor is a, and for every
\* proposal id p > 0 getProposalAudits(p) is the ascending list of the ids of
\* all records whose proposalId is p; getProposalAudits(0) is empty, records
\* with proposalId 0 being in no per-proposal list.
C18_IndexesMatchLog ==
  /\ \A a \in Addresses :
       getUserAudits(a) = ActorRecordIds(a) /\ Ascending(getUserAudits(a))
  /\ \A p \in TrailProposalIds \ {0} :
       getProposalAudits(p) = ProposalRecordIds(p) /\ Ascending(getProposalAudits(p))
  /\ getProposalAudits(0) = << >>

\* a log with two records about proposal 1, one not about a proposal, and an
\* actor with two records
C18_Witness ==
  /\ Len(ProposalRecordIds(1)) = 2
  /\ Len(ProposalRecordIds(0)) = 1
  /\ \E a \in Addresses : Len(getUserAudits(a)) = 2

\* C18 as stated: the per-proposal list of every proposal id, 0 included, is
\* the list of the ids of all records with that proposalId.
C18_IndexesMatchLogForEveryId ==
  /\ \A a \in Addresses :
       getUserAudits(a) = ActorRecordIds(a) /\ Ascending(getUserAudits(a))
  /\ \A p \in TrailProposalIds :
       getProposalAudits(p) = ProposalRecordIds(p) /\ Ascending(getProposalAudits(p))

\* ---------------------------------------------------------------------
Min(a, b) == IF a < b THEN a ELSE b

\* C19: for every start and count over a log of any length, the empty log
\* included, getAuditBatch(start, count) returns exactly
\* min(count, length - start) records, the i-th being the record with id
\* start + i, and reads no record past the end of the log.
C19_BatchClampedToLength ==
  [][\A st \in StartInputs, c \in CountInputs :
        (st <= Len(auditRecords) /\ getAuditBatch(st, c)) =>
           /\ result'.out = "ok"
           /\ Len(batch'.ids) = Min(c, Len(auditRecords) - st)
           /\ st + Len(batch'.ids) <= Len(auditRecords)
           /\ \A i \in 1 .. Len(batch'.ids) :
                /\ batch'.ids[i] = st + i - 1
                /\ batch'.timestamps[i] = auditRecords[st + i].timestamp
                /\ batch'.actors[i] = auditRecords[st + i].actor
                /\ batch'.actionTypes[i] = auditRecords[st + i].actionType
                /\ batch'.proposalIds[i] = auditRecords[st + i].proposalId]_vars

\* ---------------------------------------------------------------------
\* the official responses stored for a proposal
ResponsesOf(pid) == {i \in 1 .. Len(OfficialResponse) : OfficialResponse[i].proposal = pid}

\* a step of the createOfficialResponse handler in slot s
CreateResponseStep(s) == req[s].op = "createOfficialResponse" /\ req'[s] # req[s]

\* C20: there is at most one official response per proposal. A
\* createOfficialResponse of an official for a proposal that already has a
\* response creates nothing and does not change the proposal's status: when
\* its existence check sees the response it ends with 400 'An official
\* response already exists for this proposal'; a request that passed the
\* existence check before an overlapping request stored its response is
\* stopped at creation, by validation or by the unique index (duplicate key).
C20_OneResponsePerProposal ==
  /\ [](\A p \in 1 .. Len(Proposal) : Cardinality(ResponsesOf(p)) <= 1)
  /\ [][\A s \in Slots :
          (req[s].op = "createOfficialResponse"
             /\ req[s].pc \in {"findResponse", "createResponse"}
             /\ ResponsesOf(req[s].pid) # {} /\ CreateResponseStep(s)) =>
             /\ req'[s] = Idle
             /\ response'.op = "createOfficialResponse"
             /\ response'.code =
                  IF req[s].pc = "findResponse"
                  THEN "400 An official response already exists for this proposal"
                  ELSE IF req[s].status \notin ResponseStatusEnum THEN "ValidationError"
                  ELSE "E11000 duplicate key"
             /\ UNCHANGED <<Proposal, OfficialResponse>>]_vars

\* an overlapping create request was stopped by the unique index while the
\* first one's response is stored
C20_Witness ==
  /\ response = [op |-> "createOfficialResponse", code |-> "E11000 duplicate key"]
  /\ \E p \in 1 .. Len(Proposal) : Cardinality(ResponsesOf(p)) = 1

\* C20 as stated: every createOfficialResponse for a proposal that already has
\* an official response ends with the already-exists error, creates nothing
\* and leaves the proposal's status unchanged.
C20_DuplicateAlwaysAlreadyExists ==
  [][\A s \in Slots :
        (req[s].op = "createOfficialResponse"
           /\ req[s].pc \in {"findResponse", "createResponse"}
           /\ req[s].status \in ResponseStatusEnum
           /\ ResponsesOf(req[s].pid) # {} /\ CreateResponseStep(s)) =>
           /\ req'[s] = Idle
           /\ response' = [op |-> "createOfficialResponse",
                           code |-> "400 An official response already exists for this proposal"]
           /\ UNCHANGED <<Proposal, OfficialResponse>>]_vars

\* ---------------------------------------------------------------------
\* C21: under any interleaving of addVote and updateVote requests on a
\* proposal, once the requests have completed every stored vote is reflected
\* in the tally exactly once: each bucket of the stored tally equals the
\* number of stored vote records with that choice, so no increment is lost
\* and no vote record is without its increment.
C21_VoteAndIncrementAreOneUnit ==
  \A p \in 1 .. Len(Proposal) :
     (\A s \in Slots : req[s].op = "idle") =>
        \A k \in VoteEnum :
           Cardinality({i \in 1 .. Len(Vote) : Vote[i].proposal = p /\ Vote[i].vote = k})
              = Proposal[p].voteCount[k]

\* ---------------------------------------------------------------------
\* isVerified(actor) of the identity service for the users of the server
isVerifiedUser(user) == user = "u1"

\* C22: createProposal and castVote by an account that is not a verified
\* voter revert and leave the contract's storage unchanged, so the proposer of
\* every proposal and every recorded voter is verified; off-chain an addVote
\* by a user who is not verified stores no vote record and changes no tally,
\* so the user of every stored vote is verified.
C22_OnlyVerifiedIdentitiesAct ==
  /\ [][\A a \in Addresses :
          ~verifiedVoters[a] =>
             /\ createProposal(a) => (result'.out # "ok" /\ ChainStorageUnchanged)
             /\ \A p \in ProposalIds, b \in BOOLEAN :
                  castVote(a, p, b) => (result'.out # "ok" /\ ChainStorageUnchanged)]_vars
  /\ [](\A p \in 1 .. proposalCount :
          /\ verifiedVoters[proposals[p].proposer]
          /\ \A a \in Addresses : proposals[p].hasVoted[a] => verifiedVoters[a])
  /\ [](\A i \in 1 .. Len(Vote) : isVerifiedUser(Vote[i].user))

\* ---------------------------------------------------------------------
\* the updateVote handler is past its proposal.save(): it has written the tally
PastSave(r) == r.op = "updateVote" /\ r.pc = "updateVoteDoc"

\* the answers of updateVote that are errors
UpdateVoteErrors ==
  { "404 No vote", "401 Not authorized to update this vote",
    "400 Voting period has ended for this proposal", "ValidationError" }

\* C28: an updateVote that answers with an error (unknown vote id, not the
\* owner, proposal not in voting, new choice rejected by validation) has
\* written nothing: the step that answers leaves tallies and vote records
\* unchanged and the handler has not saved the tally before it.
C28_FailedUpdateVoteChangesNothing ==
  /\ [][\A s \in Slots :
          (req[s].op = "updateVote" /\ req'[s] = Idle
             /\ response'.op = "updateVote" /\ response'.code \in UpdateVoteErrors) =>
             /\ ~PastSave(req[s])
             /\ UNCHANGED <<Proposal, Vote>>]_vars
  /\ [][\A s \in Slots, u \in Users, v \in 1 .. (Len(Vote) + 1), c \in VoteInputs :
          (req[s].op = "idle" /\ updateVote_findVote(s, u, v, c) /\ req'[s] = Idle) =>
             /\ response'.code \in UpdateVoteErrors
             /\ UNCHANGED <<Proposal, Vote>>]_vars

\* ---------------------------------------------------------------------
\* C25: getProposals(limit, offset), with limit >= 1 and offset >= 0, returns
\* the proposals with ids total - offset down to
\* max(1, total - offset - limit + 1) in descending order, never more than
\* limit of them, and an empty list when offset >= total.
C25_GetProposalsAtMostLimit ==
  [][(listed.pc = "fetch" /\ getProposals_fetch) =>
        LET total == listed.totalCount
            first == total - listed.offset
            last  == Max(1, first - listed.limit + 1)
        IN /\ Len(listed'.proposals) <= listed.limit
           /\ listed'.proposals =
                IF listed.offset >= total THEN << >> ELSE IdsDownTo(first, last)]_vars

\* ---------------------------------------------------------------------
\* C29: for every comment, likes equals the number of users in likedBy and is
\* never negative, after any sequence and interleaving of likeComment
\* requests; and a likeComment that runs with no other request in flight
\* toggles the user's like: the user enters or leaves likedBy and likes moves
\* by one accordingly, so that two in a row restore the comment.
C29_LikesEqualLikedBy ==
  /\ [](\A c \in 1 .. Len(Comment) :
          Comment[c].likes = Cardinality(Comment[c].likedBy) /\ Comment[c].likes >= 0)
  /\ [][\A s \in Slots :
          (req[s].op = "likeComment" /\ (\A t \in Slots \ {s} : req[t].op = "idle")
             /\ likeComment_findByIdAndUpdate(s)) =>
             LET c == req[s].cid  u == req[s].user
             IN /\ Comment'[c].likedBy =
                     IF u \in Comment[c].likedBy THEN Comment[c].likedBy \ {u}
                     ELSE Comment[c].likedBy \cup {u}
                /\ Comment'[c].likes = Cardinality(Comment'[c].likedBy)]_vars

\* ---------------------------------------------------------------------
\* C27: in every reachable state the status of each stored proposal is one
\* of the seven values declared by the Proposal schema.
C27_ProposalStatusInSchemaEnum ==
  \A p \in 1 .. Len(Proposal) : Proposal[p].status \in ProposalStatusEnum

\* ---------------------------------------------------------------------
\* a step that answers the updateOfficialResponse request in slot s with 200
UpdateResponseSucceeds(s) ==
  /\ req[s].op = "updateOfficialResponse"
  /\ req'[s] = Idle
  /\ response' = [op |-> "updateOfficialResponse", code |-> "200"]

\* C24: a successful updateOfficialResponse whose requested status differs
\* from the stored status of the response leaves the proposal's status equal
\* to the mapping of the new response status (approved -> approved, rejected
\* -> rejected, partially_approved -> partially_approved, anything else ->
\* under_review), the mapping createOfficialResponse applies. Stated for an
\* update that ends with no other request in flight.
C24_UpdateResponseUpdatesProposal ==
  [][\A s \in Slots :
       (/\ UpdateResponseSucceeds(s)
        /\ \A t \in Slots \ {s} : req[t].op = "idle"
        /\ req[s].status # Missing
        /\ req[s].status # req[s].old) =>
         Proposal'[req[s].pid].status = ProposalStatusFor(req[s].status)]_vars

\* ---------------------------------------------------------------------
\* the request in slot s ends at its createVerificationProof call
ProofStepFails(s) == req[s].pc = "createProof" /\ req'[s] = Idle

\* the request in slot s writes an official response for which it asked for
\* blockchain verification
VerifiedWrite(s) ==
  /\ req[s].op \in {"createOfficialResponse", "updateOfficialResponse"}
  /\ req[s].pc \in {"createResponse", "findByIdAndUpdate"}
  /\ OfficialResponse' # OfficialResponse
  /\ req[s].isVerified
  /\ req[s].op = "updateOfficialResponse" =>
       req[s].status # Missing /\ req[s].status # req[s].old

\* C30: when verification is requested and createVerificationProof fails,
\* createOfficialResponse and updateOfficialResponse answer 500 'Blockchain
\* verification failed' and store nothing: no official response is created
\* or changed and the proposal keeps its status; a request that asked for
\* verification only writes with a proof in hand. A stored response created
\* with isVerified carries a verificationProof, and keeps it.
C30_FailedVerificationStoresNothing ==
  /\ [][\A s \in Slots :
          /\ ProofStepFails(s) =>
               /\ response' = [op |-> req[s].op, code |-> "500 Blockchain verification failed"]
               /\ OfficialResponse' = OfficialResponse
               /\ Proposal' = Proposal
          /\ VerifiedWrite(s) => req[s].proof # Missing]_vars
  /\ [][/\ Len(OfficialResponse') > Len(OfficialResponse) =>
             LET created == OfficialResponse'[Len(OfficialResponse')]
             IN created.isVerified => created.verificationProof # Missing
        /\ \A i \in 1 .. Len(OfficialResponse) :
             OfficialResponse[i].verificationProof # Missing =>
               OfficialResponse'[i].verificationProof # Missing]_vars

C30_Witness ==
  /\ response = [op |-> "updateOfficialResponse", code |-> "500 Blockchain verification failed"]
  /\ Len(OfficialResponse) = 1
  /\ OfficialResponse[1].isVerified
  /\ OfficialResponse[1].verificationProof # Missing

\* ---------------------------------------------------------------------
\* the proposal is one createImplementation accepts
ApprovedProposal(pid) ==
  ProposalExists(pid) /\ Proposal[pid].status \in {"approved", "partially_approved"}

ImplementationsOf(pid) ==
  {i \in 1 .. Len(Implementation) : Implementation[i].proposal = pid}

\* a step in which the createImplementation request of slot s ends on one of
\* its checks: 404 or 400 at once, or 400 / a rejected create later
CreateImplementationRefused(s) ==
  \/ /\ req[s].op = "idle" /\ served' # served /\ req' = req
     /\ response'.op = "createImplementation"
  \/ /\ req[s].op = "createImplementation" /\ req[s].pc \in {"findOne", "create"}
     /\ req'[s] = Idle /\ response'.code # "201"

UpdateAfterFailedProof(s) ==
  /\ req[s].op = "updateImplementation" /\ req[s].pc = "findByIdAndUpdate"
  /\ req[s].status \in {"completed", "cancelled"} /\ req[s].status # req[s].old
  /\ req[s].blockchainProofs = Missing

\* C23: a failure of createImplementationProof is swallowed. In
\* createImplementation the plan created before stays as it is, without a
\* proof entry, and the answer is 201. In updateImplementation the handler goes
\* on to its findByIdAndUpdate, which stores the requested status and the
\* generated 'Status changed' progress update, leaves blockchainProofs as
\* stored, and answers 200.
C23_ProofFailureIsSwallowed ==
  /\ [][\A s \in Slots :
          (req[s].pc = "proof" /\ createImplementationProof(s, FALSE)) =>
             IF req[s].op = "createImplementation"
             THEN /\ response' = [op |-> "createImplementation", code |-> "201"]
                  /\ req[s].iid \in 1 .. Len(Implementation)
                  /\ Implementation' = Implementation
             ELSE /\ response' = response
                  /\ Implementation' = Implementation
                  /\ req'[s].op = "updateImplementation"
                  /\ UpdateAfterFailedProof(s)']_vars
  /\ [][\A s \in Slots :
          (UpdateAfterFailedProof(s) /\ req'[s] # req[s]) =>
             LET i == req[s].iid
             IN /\ response' = [op |-> "updateImplementation", code |-> "200"]
                /\ Implementation'[i].status = req[s].status
                /\ Implementation'[i].progressUpdates = <<StatusChangeUpdate(req[s])>>
                /\ Implementation'[i].blockchainProofs = Implementation[i].blockchainProofs]_vars

C23_Witness ==
  /\ response = [op |-> "updateImplementation", code |-> "200"]
  /\ Len(Implementation) = 1
  /\ Implementation[1].status = "completed"
  /\ Implementation[1].progressUpdates # << >>
  /\ Implementation[1].blockchainProofs = << >>

====
